---- MODULE Spec2Model ----
(***************************************************************************)
(* Emoji Memory Match (src/game-app/src/app/page.tsx): the Home component  *)
(* as a state machine.  One action per event the single-threaded host can  *)
(* deliver: a click on a card, a click on the restart button, the interval *)
(* callback, a setTimeout callback, and the passing of time.  Each action  *)
(* is the handler together with the render and the effects React runs      *)
(* before the next event.                                                  *)
(*                                                                         *)
(* Indices are 0-based as in the source: cards is a function on 0..N-1.    *)
(* The length of the two resolution delays is abstracted: a scheduled      *)
(* callback may run at any later point, before or after the clock moves.   *)
(***************************************************************************)
EXTENDS Integers, Sequences, FiniteSets

\* ---------------------------------------------------------------- bounds
NumSymbols == 2   \* number of entries of SYMBOLS kept (8 in the source)
MaxNow == 2       \* performance.now() stops advancing here
RandomLevels == 2 \* Math.random() returns k / RandomLevels, 0 <= k < RandomLevels
MaxMoves == 3     \* pairs turned over per round

\* ------------------------------------------------------------- constants
NULL == -1        \* JavaScript null, where a number is expected
NaN == -2         \* the result of Number() on text that is no number

SYMBOLS == [k \in 1..NumSymbols |-> k]
TOTAL_PAIRS == Len(SYMBOLS)
DeckSize == 2 * TOTAL_PAIRS

VARIABLES
  cards,          \* useState<Card[]>            0..N-1 -> Card
  activeCards,    \* useState<number[]>          sequence of indices
  moves,          \* useState(0)
  matches,        \* useState(0)
  status,         \* "ready" | "playing" | "won"
  elapsedMs,      \* useState(0)
  bestTime,       \* useState<number | null>
  intervalRef,    \* handle of the running interval, or NULL
  startTimeRef,   \* performance.now() at round start, or NULL
  timeoutsRef,    \* ids handed to setTimeout since the last clear
  timers,         \* the host's scheduled, not yet run, timeout callbacks
  storage,        \* localStorage["emoji-memory-best"]: text, or NoEntry
  now,            \* performance.now()
  lastEvent,      \* history: the event the last step delivered
  offered,        \* history: candidates offered to the best time this round
  finishes,       \* history: the loaded best time and every finish time
  raced,          \* history: restart hit a pending resolution, no tap since
  storageFault,   \* environment: "none", or which localStorage calls throw
  crashed         \* an error escaped a handler's render or an effect

progVars == <<cards, activeCards, moves, matches, status, elapsedMs, bestTime,
              intervalRef, startTimeRef, timeoutsRef, timers, storage>>
vars == <<cards, activeCards, moves, matches, status, elapsedMs, bestTime,
          intervalRef, startTimeRef, timeoutsRef, timers, storage, now,
          lastEvent, offered, finishes, raced, storageFault, crashed>>

Range(s) == {s[i] : i \in DOMAIN s}

\* `if (x)` on a number-or-null: null and 0 are falsy.
Truthy(x) == x # NULL /\ x # 0

\* ------------------------------------------------------------ createDeck
\* The deck before the shuffle: SYMBOLS.flatMap((symbol, idx) => [..., ...]).
UnshuffledDeck ==
  [p \in 0..(DeckSize - 1) |->
     [id |-> p, symbol |-> SYMBOLS[(p \div 2) + 1],
      isFlipped |-> FALSE, isMatched |-> FALSE]]

\* One draw of Math.random() for every i of the loop, as the numerator k of
\* k / RandomLevels.
RandomDraws == [1..(DeckSize - 1) -> 0..(RandomLevels - 1)]

\* Math.floor(Math.random() * (i + 1))
RandomIndex(k, i) == (k * (i + 1)) \div RandomLevels

\* Faulty variant: the swap copies one way only.
Swap_Overwrites(deck, i, j) == [deck EXCEPT ![i] = deck[j]]

Swap(deck, i, j) == [deck EXCEPT ![i] = deck[j], ![j] = deck[i]]

\* for (let i = deck.length - 1; i > 0; i -= 1) swap(deck[i], deck[j])
RECURSIVE Shuffle(_, _, _)
Shuffle(deck, i, r) ==
  IF i > 0 THEN Shuffle(Swap(deck, i, RandomIndex(r[i], i)), i - 1, r)
  ELSE deck

createDeck(r) == Shuffle(UnshuffledDeck, DeckSize - 1, r)

\* ------------------------------------------------- String() and Number()
Digits == <<"0", "1", "2", "3", "4", "5", "6", "7", "8", "9">>

DigitValue(c) == CHOOSE d \in 0..9 : Digits[d + 1] = c

\* String(n) for an integer n >= 0: its decimal digits.
RECURSIVE StringOf(_)
StringOf(n) ==
  IF n < 10 THEN <<Digits[n + 1]>>
  ELSE Append(StringOf(n \div 10), Digits[(n % 10) + 1])

RECURSIVE TrimLeft(_)
TrimLeft(s) ==
  IF s # <<>> /\ Head(s) = " " THEN TrimLeft(Tail(s)) ELSE s

RECURSIVE TrimRight(_)
TrimRight(s) ==
  IF s # <<>> /\ s[Len(s)] = " "
  THEN TrimRight(SubSeq(s, 1, Len(s) - 1)) ELSE s

RECURSIVE DigitsValue(_)
DigitsValue(s) ==
  IF s = <<>> THEN 0
  ELSE 10 * DigitsValue(SubSeq(s, 1, Len(s) - 1)) + DigitValue(s[Len(s)])

\* Number(text): surrounding white space is dropped, the empty text is 0,
\* a run of decimal digits is its value, anything else is NaN.
ToNumber(s) ==
  LET t == TrimRight(TrimLeft(s)) IN
    IF t = <<>> THEN 0
    ELSE IF \A i \in DOMAIN t : t[i] \in Range(Digits) THEN DigitsValue(t)
    ELSE NaN

\* Text is a sequence of one-character strings.  getItem returns null for
\* a key that is not there: NoEntry stands for that null.
NoEntry == <<"null">>

\* The mount effect: getItem, `if (stored)`, Number, Number.isNaN.
LoadBestTime(stored) ==
  IF stored # NoEntry /\ stored # <<>>
  THEN LET parsed == ToNumber(stored) IN
         IF parsed # NaN THEN parsed ELSE NULL
  ELSE NULL

\* What localStorage may hold when the page is opened.
StoredInputs == {NoEntry, <<>>, <<" ">>, <<"x">>, <<"1">>}

\* ------------------------------------------------------------------ Init
NoEvent == [op |-> "mount", index |-> NULL, outcome |-> "done"]

\* The component after mount, given which localStorage calls throw: "read"
\* is a store that cannot be accessed at all (getItem and setItem throw),
\* "write" one that can be read but not written.  An error thrown by the
\* mount effect is caught by no one, and React unmounts the tree.
Mounted(fault) ==
  /\ \E r \in RandomDraws : cards = createDeck(r)
  /\ activeCards = <<>>
  /\ moves = 0
  /\ matches = 0
  /\ status = "ready"
  /\ elapsedMs = 0
  /\ storage \in StoredInputs
  /\ bestTime = IF fault = "read" THEN NULL ELSE LoadBestTime(storage)
  /\ intervalRef = NULL
  /\ startTimeRef = NULL
  /\ timeoutsRef = <<>>
  /\ timers = {}
  /\ now = 1
  /\ lastEvent = NoEvent
  /\ offered = <<>>
  /\ finishes = {bestTime} \ {NULL}
  /\ raced = FALSE
  /\ storageFault = fault
  /\ crashed = (fault = "read")

Init == Mounted("none")

\* --------------------------------------------------------- handleCardClick
\* History: what the step delivered.  outcome is "returned", "threw" or
\* "accepted" for a click, "match" or "mismatch" for a timeout callback.
Event(op, index, outcome) == [op |-> op, index |-> index, outcome |-> outcome]

INTERVAL_HANDLE == 1   \* what setInterval returns: any non-zero handle

\* setTimeout returns an id no live handle carries.
NextTimeoutId ==
  LET used == Range(timeoutsRef) \cup {t.id : t \in timers} IN
    CHOOSE n \in 1..(Cardinality(used) + 1) :
      /\ n \notin used
      /\ \A m \in 1..(n - 1) : m \in used

\* Faulty variant: a face-up card can be clicked again.
ClickOutcome_NoFlippedGuard(index) ==
  IF status = "won" \/ Len(activeCards) = 2 THEN "returned"
  ELSE IF index \notin DOMAIN cards THEN "threw"
  ELSE IF cards[index].isMatched THEN "returned"
  ELSE "accepted"

\* Faulty variant: the length-2 guard is missing.
ClickOutcome_NoPendingGuard(index) ==
  IF status = "won" THEN "returned"
  ELSE IF index \notin DOMAIN cards THEN "threw"
  ELSE IF cards[index].isMatched \/ cards[index].isFlipped THEN "returned"
  ELSE "accepted"

\* The guards of lines 154-161; an index outside the deck makes
\* cards[index] undefined, and reading card.isMatched then throws.
ClickOutcome(index) ==
  IF status = "won" \/ Len(activeCards) = 2 THEN "returned"
  ELSE IF index \notin DOMAIN cards THEN "threw"
  ELSE IF cards[index].isMatched \/ cards[index].isFlipped THEN "returned"
  ELSE "accepted"

\* The callback handed to setTimeout: which branch, the two indices, and
\* the elapsedMs of the render whose handler scheduled it.
Timeout(kind, first, second) ==
  [id |-> NextTimeoutId, kind |-> kind, first |-> first, second |-> second,
   elapsedMs |-> elapsedMs, stale |-> FALSE]

AcceptClick(index) ==
  LET revealedCards == [cards EXCEPT ![index].isFlipped = TRUE]
      newActive == Append(activeCards, index)
  IN
    /\ cards' = revealedCards
    /\ activeCards' = newActive
    /\ IF status = "ready"
       THEN \* setStatus("playing"), then the status effect of lines 130-150
            /\ status' = "playing"
            /\ startTimeRef' = IF ~Truthy(startTimeRef) THEN now
                               ELSE startTimeRef
            /\ intervalRef' = INTERVAL_HANDLE
       ELSE UNCHANGED <<status, startTimeRef, intervalRef>>
    /\ IF Len(newActive) = 2
       THEN LET first == newActive[1]
                second == newActive[2]
                kind == IF revealedCards[first].symbol
                             = revealedCards[second].symbol
                        THEN "match" ELSE "mismatch"
                t == Timeout(kind, first, second)
            IN /\ moves < MaxMoves
               /\ moves' = moves + 1
               /\ timers' = timers \cup {t}
               /\ timeoutsRef' = Append(timeoutsRef, t.id)
       ELSE UNCHANGED <<moves, timers, timeoutsRef>>
    /\ raced' = FALSE
    /\ UNCHANGED <<matches, elapsedMs, bestTime, storage, now, offered,
                   finishes>>

handleCardClick(index) ==
  /\ ~crashed
  /\ lastEvent' = Event("click", index, ClickOutcome(index))
  /\ IF ClickOutcome(index) = "accepted"
     THEN AcceptClick(index)
     ELSE UNCHANGED <<progVars, now, offered, finishes, raced>>
  /\ UNCHANGED <<storageFault, crashed>>

\* ------------------------------------------------- the timeout callbacks
\* prevCards.map((item, idx) => idx === first || idx === second
\*                               ? { ...item, isMatched: true } : item)
\* Faulty variant: only the first card is marked.
Retire_OnlyFirst(prevCards, first, second) ==
  [idx \in DOMAIN prevCards |->
     IF idx = first THEN [prevCards[idx] EXCEPT !.isMatched = TRUE]
     ELSE prevCards[idx]]

Retire(prevCards, first, second) ==
  [idx \in DOMAIN prevCards |->
     IF idx = first \/ idx = second
     THEN [prevCards[idx] EXCEPT !.isMatched = TRUE]
     ELSE prevCards[idx]]

\* prevCards.map((item, idx) => idx === first || idx === second
\*                               ? { ...item, isFlipped: false } : item)
\* Faulty variant: only the first card is turned back.
Unflip_OnlyFirst(prevCards, first, second) ==
  [idx \in DOMAIN prevCards |->
     IF idx = first THEN [prevCards[idx] EXCEPT !.isFlipped = FALSE]
     ELSE prevCards[idx]]

\* Faulty variant: only the second card is turned back.
Unflip_OnlySecond(prevCards, first, second) ==
  [idx \in DOMAIN prevCards |->
     IF idx = second THEN [prevCards[idx] EXCEPT !.isFlipped = FALSE]
     ELSE prevCards[idx]]

Unflip(prevCards, first, second) ==
  [idx \in DOMAIN prevCards |->
     IF idx = first \/ idx = second
     THEN [prevCards[idx] EXCEPT !.isFlipped = FALSE]
     ELSE prevCards[idx]]

\* startTimeRef.current ? Math.round(performance.now() - startTimeRef.current)
\*                      : elapsedMs      (the elapsedMs the closure captured)
\* Faulty variant: the elapsedMs the closure captured is always used.
FinalElapsed_Captured(capturedElapsedMs) == capturedElapsedMs

\* Faulty variant: the last periodic reading is used.
FinalElapsed_LastTick(capturedElapsedMs) == elapsedMs

FinalElapsed(capturedElapsedMs) ==
  IF Truthy(startTimeRef) THEN now - startTimeRef ELSE capturedElapsedMs

\* The test of the setBestTime updater.
\* Faulty variant: every finish replaces the best time.
Improves_Always(prevBest, finalElapsed) == TRUE

Improves(prevBest, finalElapsed) ==
  prevBest = NULL \/ finalElapsed < prevBest

\* setCards(prev => ...), setActiveCards([]), setMatches(prev => ...) with
\* the win branch inside the updater.  localStorage.setItem is called inside
\* the setBestTime updater, which runs while React renders: when it throws,
\* the render is abandoned and none of the state updates is committed, the
\* two refs are already written, and React unmounts the tree.
MatchCallback(t) ==
  LET next == matches + 1
      finalElapsed == FinalElapsed(t.elapsedMs)
  IN
    IF /\ next = TOTAL_PAIRS
       /\ Improves(bestTime, finalElapsed)
       /\ storageFault # "none"
    THEN /\ crashed' = TRUE
         /\ intervalRef' = NULL
         /\ startTimeRef' = NULL
         /\ offered' = Append(offered, finalElapsed)
         /\ UNCHANGED <<cards, activeCards, matches, elapsedMs, status,
                        finishes, storage, bestTime>>
    ELSE
    /\ crashed' = crashed
    /\ cards' = Retire(cards, t.first, t.second)
    /\ activeCards' = <<>>
    /\ matches' = next
    /\ IF next = TOTAL_PAIRS
       THEN /\ intervalRef' = NULL
            /\ startTimeRef' = NULL
            /\ elapsedMs' = finalElapsed
            /\ status' = "won"
            /\ offered' = Append(offered, finalElapsed)
            /\ finishes' = finishes \cup {finalElapsed}
            /\ IF Improves(bestTime, finalElapsed)
               THEN /\ storage' = StringOf(finalElapsed)
                    /\ bestTime' = finalElapsed
               ELSE UNCHANGED <<storage, bestTime>>
       ELSE UNCHANGED <<intervalRef, startTimeRef, elapsedMs, status,
                        offered, finishes, storage, bestTime>>

\* Faulty variant: setActiveCards([]) is missing.
MismatchCallback_KeepsSelection(t) ==
  /\ cards' = Unflip(cards, t.first, t.second)
  /\ UNCHANGED <<activeCards, matches, intervalRef, startTimeRef, elapsedMs,
                 status, offered, finishes, storage, bestTime, crashed>>

\* setCards(prev => ...), setActiveCards([]).
MismatchCallback(t) ==
  /\ cards' = Unflip(cards, t.first, t.second)
  /\ activeCards' = <<>>
  /\ UNCHANGED <<matches, intervalRef, startTimeRef, elapsedMs, status,
                 offered, finishes, storage, bestTime, crashed>>

\* Faulty variant: the callback stays scheduled, as with setInterval.
TimeoutFires_Repeats(t) ==
  /\ ~crashed
  /\ t \in timers
  /\ IF t.kind = "match" THEN MatchCallback(t) ELSE MismatchCallback(t)
  /\ timers' = IF crashed' THEN {} ELSE timers
  /\ timeoutsRef' = IF crashed' THEN <<>> ELSE timeoutsRef
  /\ lastEvent' = Event("timeout", NULL, t.kind)
  /\ UNCHANGED <<moves, now, raced, storageFault>>

\* The host runs a scheduled callback, once.  Unmounting runs the cleanup
\* of lines 123-128: stopInterval and clearPendingTimeouts.
TimeoutFires(t) ==
  /\ ~crashed
  /\ t \in timers
  /\ IF t.kind = "match" THEN MatchCallback(t) ELSE MismatchCallback(t)
  /\ timers' = IF crashed' THEN {} ELSE timers \ {t}
  /\ timeoutsRef' = IF crashed' THEN <<>> ELSE timeoutsRef
  /\ lastEvent' = Event("timeout", NULL, t.kind)
  /\ UNCHANGED <<moves, now, raced, storageFault>>

\* ---------------------------------------------------------------- timer
\* The setInterval callback of lines 141-145.
IntervalCallback ==
  /\ ~crashed
  /\ intervalRef # NULL
  /\ elapsedMs' = IF Truthy(startTimeRef) THEN now - startTimeRef
                  ELSE elapsedMs
  /\ lastEvent' = Event("interval", NULL, "done")
  /\ UNCHANGED <<cards, activeCards, moves, matches, status, bestTime,
                 intervalRef, startTimeRef, timeoutsRef, timers, storage,
                 now, offered, finishes, raced, storageFault, crashed>>

\* Time passes.
ClockAdvances ==
  /\ now < MaxNow
  /\ now' = now + 1
  /\ lastEvent' = Event("clock", NULL, "done")
  /\ UNCHANGED <<progVars, offered, finishes, raced, storageFault, crashed>>

\* -------------------------------------------------------------- resetGame
\* Faulty variant: nothing is cancelled.
clearPendingTimeouts_None == timers

\* clearTimeout on every id of timeoutsRef: the callbacks left scheduled.
clearPendingTimeouts == {t \in timers : t.id \notin Range(timeoutsRef)}

\* History: a callback that outlives a restart is marked stale.
MarkStale(ts) == {[t EXCEPT !.stale = TRUE] : t \in ts}

\* Faulty variant: setMoves(0) is missing.
ResetWith_KeepsMoves(remaining, r) ==
  /\ ~crashed
  /\ intervalRef' = NULL
  /\ timers' = MarkStale(remaining)
  /\ timeoutsRef' = <<>>
  /\ cards' = createDeck(r)
  /\ activeCards' = <<>>
  /\ matches' = 0
  /\ status' = "ready"
  /\ elapsedMs' = 0
  /\ startTimeRef' = NULL
  /\ lastEvent' = Event("restart", NULL, "done")
  /\ offered' = <<>>
  /\ raced' = (timers # {})
  /\ UNCHANGED <<bestTime, storage, now, finishes, moves, storageFault,
                 crashed>>

\* Faulty variant: setMatches(0) is missing.
ResetWith_KeepsMatches(remaining, r) ==
  /\ ~crashed
  /\ intervalRef' = NULL
  /\ timers' = MarkStale(remaining)
  /\ timeoutsRef' = <<>>
  /\ cards' = createDeck(r)
  /\ activeCards' = <<>>
  /\ moves' = 0
  /\ status' = "ready"
  /\ elapsedMs' = 0
  /\ startTimeRef' = NULL
  /\ lastEvent' = Event("restart", NULL, "done")
  /\ offered' = <<>>
  /\ raced' = (timers # {})
  /\ UNCHANGED <<bestTime, storage, now, finishes, matches, storageFault,
                 crashed>>

\* Faulty variant: stopInterval() is missing.
ResetWith_KeepsInterval(remaining, r) ==
  /\ ~crashed
  /\ timers' = MarkStale(remaining)
  /\ timeoutsRef' = <<>>
  /\ cards' = createDeck(r)
  /\ activeCards' = <<>>
  /\ moves' = 0
  /\ matches' = 0
  /\ status' = "ready"
  /\ elapsedMs' = 0
  /\ startTimeRef' = NULL
  /\ lastEvent' = Event("restart", NULL, "done")
  /\ offered' = <<>>
  /\ raced' = (timers # {})
  /\ UNCHANGED <<bestTime, storage, now, finishes, intervalRef,
                 storageFault, crashed>>

\* stopInterval, clearPendingTimeouts (remaining: what the host still holds
\* afterwards), then the setters of lines 99-105 and the status effect.
ResetWith(remaining, r) ==
  /\ ~crashed
  /\ intervalRef' = NULL
  /\ timers' = MarkStale(remaining)
  /\ timeoutsRef' = <<>>
  /\ cards' = createDeck(r)
  /\ activeCards' = <<>>
  /\ moves' = 0
  /\ matches' = 0
  /\ status' = "ready"
  /\ elapsedMs' = 0
  /\ startTimeRef' = NULL
  /\ lastEvent' = Event("restart", NULL, "done")
  /\ offered' = <<>>
  /\ raced' = (timers # {})
  /\ UNCHANGED <<bestTime, storage, now, finishes, storageFault, crashed>>

resetGame == \E r \in RandomDraws : ResetWith(clearPendingTimeouts, r)

\* ------------------------------------------------------------------ Next
ClickInputs == (-1)..DeckSize

Click == \E index \in ClickInputs : handleCardClick(index)

TimeoutCallback == \E t \in timers : TimeoutFires(t)

Next ==
  \/ Click
  \/ TimeoutCallback
  \/ IntervalCallback
  \/ ClockAdvances
  \/ resetGame

Spec == Init /\ [][Next]_vars

\* A host whose clearTimeout comes too late for a callback that is already
\* queued to run: the restart leaves the outstanding callback scheduled, and
\* the host runs it, queued as it is, before it delivers any later event.
NoStale == \A t \in timers : ~t.stale

resetGameLate ==
  /\ NoStale
  /\ timers # {}
  /\ \E r \in RandomDraws : ResetWith(timers, r)

StaleTimeoutCallback == \E t \in timers : t.stale /\ TimeoutFires(t)

NextLate ==
  \/ NoStale /\ Next
  \/ resetGameLate
  \/ StaleTimeoutCallback

SpecLate == Init /\ [][NextLate]_vars

\* A browser whose localStorage may throw.
InitStore == \E fault \in {"none", "read", "write"} : Mounted(fault)

SpecStore == InitStore /\ [][Next]_vars

\* The timeout callbacks the host holds are run eventually.
SpecFair == Spec /\ WF_vars(TimeoutCallback)

\* -------------------------------------------------------------- rendering
\* What the component hands to the DOM for the card buttons (lines 296-325):
\* per card its key, the classes that depend on state, the text inside the
\* span, which is card.symbol whatever the opacity, and the "Tap" label.
Render(cs) ==
  [index \in DOMAIN cs |->
     LET card == cs[index]
         isRevealed == card.isFlipped \/ card.isMatched
     IN [key |-> card.id,
         revealedStyle |-> isRevealed,
         disabledStyle |-> ~isRevealed
                             /\ (status = "won" \/ Len(activeCards) = 2),
         matchedStyle |-> card.isMatched,
         spanOpacity |-> IF isRevealed THEN "opacity-100" ELSE "opacity-0",
         spanText |-> card.symbol,
         tapLabel |-> ~isRevealed]]

TypeOK ==
  /\ DOMAIN cards = 0..(DeckSize - 1)
  /\ \A i \in DOMAIN cards :
       /\ cards[i].id \in 0..(DeckSize - 1)
       /\ cards[i].symbol \in Range(SYMBOLS)
       /\ cards[i].isFlipped \in BOOLEAN
       /\ cards[i].isMatched \in BOOLEAN
  /\ activeCards \in Seq(DOMAIN cards)
  /\ moves \in 0..MaxMoves
  /\ matches \in Nat
  /\ status \in {"ready", "playing", "won"}
  /\ elapsedMs \in 0..MaxNow
  /\ bestTime \in {NULL} \cup Nat
  /\ intervalRef \in {NULL, INTERVAL_HANDLE}
  /\ startTimeRef \in {NULL} \cup 1..MaxNow
  /\ now \in 1..MaxNow


\* ================================================================ claims
AllFaceDown ==
  \A i \in DOMAIN cards : ~cards[i].isFlipped /\ ~cards[i].isMatched

Pending == Len(activeCards) = 2

PendingMatch ==
  Pending /\ cards[activeCards[1]].symbol = cards[activeCards[2]].symbol

PendingMismatch ==
  Pending /\ cards[activeCards[1]].symbol # cards[activeCards[2]].symbol

MatchedFlags == [i \in DOMAIN cards |-> cards[i].isMatched]

MatchedCount == Cardinality({i \in DOMAIN cards : cards[i].isMatched})

Min(S) == CHOOSE x \in S : \A y \in S : x <= y

\* C1: a restart issued while a resolution is pending discards it.  Until
\* the next accepted tap the new round stays face-down, unselected, at zero
\* matches, ready, with the deck and the best time as the restart left them;
\* and no callback scheduled before a restart is ever still outstanding, so
\* whatever resolves later was scheduled by a tap of the new round.
C1_RestartDiscardsPending ==
  /\ [](raced => /\ AllFaceDown
                 /\ activeCards = <<>>
                 /\ matches = 0
                 /\ status = "ready")
  /\ [][(raced /\ raced' /\ lastEvent'.op # "restart")
          => (cards' = cards /\ bestTime' = bestTime)]_vars
  /\ [](\A t \in timers : ~t.stale)

C1_Witness == raced /\ lastEvent.op = "clock"

\* C2: a click is inert when the round is won, when two cards are already
\* selected, or when the card clicked is matched or face-up: no state of the
\* component, no ref, no scheduled callback and no stored entry changes.
C2_IgnoredTapInert ==
  [][(/\ lastEvent'.op = "click"
      /\ \/ status = "won"
         \/ Len(activeCards) = 2
         \/ /\ lastEvent'.index \in DOMAIN cards
            /\ \/ cards[lastEvent'.index].isMatched
               \/ cards[lastEvent'.index].isFlipped)
       => UNCHANGED progVars]_vars

C2_Witness ==
  /\ lastEvent.op = "click"
  /\ lastEvent.outcome = "returned"
  /\ Len(activeCards) = 2
  /\ lastEvent.index \in DOMAIN cards
  /\ ~cards[lastEvent.index].isFlipped

\* C3: the second click of a same-symbol pair adds exactly one move and
\* retires nothing; while the pair waits nothing about it changes; and the
\* match callback, in one step, marks exactly these two cards matched, clears
\* the selection and adds exactly one match.
C3_MatchResolution ==
  /\ [](PendingMatch => /\ activeCards[1] # activeCards[2]
                        /\ ~cards[activeCards[1]].isMatched
                        /\ ~cards[activeCards[2]].isMatched)
  /\ [][/\ (Len(activeCards) = 1 /\ PendingMatch')
           => /\ moves' = moves + 1
              /\ matches' = matches
              /\ MatchedFlags' = MatchedFlags
        /\ (PendingMatch /\ lastEvent'.op # "restart")
           => \/ /\ lastEvent'.op = "timeout"
                 /\ cards' = [cards EXCEPT
                                ![activeCards[1]].isMatched = TRUE,
                                ![activeCards[2]].isMatched = TRUE]
                 /\ activeCards' = <<>>
                 /\ matches' = matches + 1
                 /\ moves' = moves
              \/ /\ lastEvent'.op # "timeout"
                 /\ cards' = cards
                 /\ activeCards' = activeCards
                 /\ matches' = matches
                 /\ moves' = moves]_vars

C3_Witness ==
  /\ lastEvent.op = "timeout"
  /\ lastEvent.outcome = "match"
  /\ matches = 1
  /\ MatchedCount = 2

\* C4: the second click of a pair of different symbols adds exactly one
\* move; the mismatch callback turns exactly these two cards face-down and
\* clears the selection, and leaves matches, every isMatched flag and the
\* status as they were.
C4_MismatchResolution ==
  /\ [](PendingMismatch => /\ activeCards[1] # activeCards[2]
                           /\ cards[activeCards[1]].isFlipped
                           /\ cards[activeCards[2]].isFlipped)
  /\ [][/\ (Len(activeCards) = 1 /\ PendingMismatch')
           => /\ moves' = moves + 1
              /\ matches' = matches
              /\ MatchedFlags' = MatchedFlags
        /\ (PendingMismatch /\ lastEvent'.op # "restart")
           => \/ /\ lastEvent'.op = "timeout"
                 /\ cards' = [cards EXCEPT
                                ![activeCards[1]].isFlipped = FALSE,
                                ![activeCards[2]].isFlipped = FALSE]
                 /\ activeCards' = <<>>
                 /\ matches' = matches
                 /\ status' = status
                 /\ moves' = moves
              \/ /\ lastEvent'.op # "timeout"
                 /\ cards' = cards
                 /\ activeCards' = activeCards
                 /\ matches' = matches
                 /\ moves' = moves]_vars

C4_Witness ==
  /\ lastEvent.op = "timeout"
  /\ lastEvent.outcome = "mismatch"
  /\ moves = 1
  /\ AllFaceDown

\* C5: the step that brings matches to TOTAL_PAIRS is a match callback; it
\* sets status to won, stops the interval, freezes elapsedMs at
\* performance.now() minus the recorded start, and offers exactly that value
\* to the best time, once for the round.
C5_WinFreezesAndOffers ==
  /\ [][(matches # TOTAL_PAIRS /\ matches' = TOTAL_PAIRS)
          => /\ lastEvent'.op = "timeout"
             /\ status' = "won"
             /\ intervalRef' = NULL
             /\ startTimeRef # NULL
             /\ elapsedMs' = now - startTimeRef
             /\ offered' = <<elapsedMs'>>]_vars
  /\ [](status = "won" => matches = TOTAL_PAIRS /\ offered = <<elapsedMs>>)
  /\ [](status # "won" => offered = <<>>)

C5_Witness ==
  /\ status = "won"
  /\ lastEvent.op = "timeout"
  /\ elapsedMs > 0
  /\ offered = <<elapsedMs>>

\* C6: at most two cards are selected, and matches is half the number of
\* matched cards, between 0 and TOTAL_PAIRS.
C6_SelectionAndMatchCount ==
  /\ Len(activeCards) <= 2
  /\ 2 * matches = MatchedCount
  /\ matches \in 0..TOTAL_PAIRS

C6_Witness == matches = 1 /\ Len(activeCards) = 2

\* C7: the deck always has 2 x TOTAL_PAIRS cards with distinct ids, every
\* symbol on exactly two cards, matched cards face-up and matched in whole
\* same-symbol pairs; only a restart changes which card lies where.
C7_DeckShape ==
  /\ [](/\ DOMAIN cards = 0..(2 * TOTAL_PAIRS - 1)
        /\ \A i, j \in DOMAIN cards : i # j => cards[i].id # cards[j].id
        /\ \A i \in DOMAIN cards : cards[i].symbol \in Range(SYMBOLS)
        /\ \A s \in Range(SYMBOLS) :
             Cardinality({i \in DOMAIN cards : cards[i].symbol = s}) = 2
        /\ \A i \in DOMAIN cards : cards[i].isMatched => cards[i].isFlipped
        /\ \A i, j \in DOMAIN cards :
             cards[i].symbol = cards[j].symbol
               => cards[i].isMatched = cards[j].isMatched)
  /\ [][lastEvent'.op # "restart"
          => /\ DOMAIN cards' = DOMAIN cards
             /\ \A i \in DOMAIN cards :
                  /\ cards'[i].id = cards[i].id
                  /\ cards'[i].symbol = cards[i].symbol]_vars

C7_Witness ==
  /\ matches = 1
  /\ lastEvent.op = "timeout"
  /\ \E i \in DOMAIN cards : cards[i].id # i

\* C8: a restart, from any state, leaves every card face-down and unmatched,
\* nothing selected, moves, matches and elapsedMs at 0, status ready, the
\* interval stopped, the start instant cleared and no callback outstanding,
\* and does not touch the best time or its stored entry.
C8_RestartResets ==
  [][lastEvent'.op = "restart"
       => /\ AllFaceDown'
          /\ activeCards' = <<>>
          /\ moves' = 0
          /\ matches' = 0
          /\ elapsedMs' = 0
          /\ status' = "ready"
          /\ intervalRef' = NULL
          /\ startTimeRef' = NULL
          /\ timers' = {}
          /\ bestTime' = bestTime
          /\ storage' = storage]_vars

C8_Witness ==
  /\ lastEvent.op = "restart"
  /\ raced
  /\ bestTime # NULL
  /\ now > 1

\* C9: an offer replaces the best time exactly when there is none or the
\* candidate is smaller, and otherwise touches neither the best time nor the
\* stored entry; so the best time is the least of the loaded value and all
\* finish times, never grows, and is what the stored entry reads back as.
C9_BestTimeIsMinimum ==
  /\ [](bestTime = IF finishes = {} THEN NULL ELSE Min(finishes))
  /\ [](LoadBestTime(storage) = bestTime)
  /\ [][/\ bestTime # NULL => (bestTime' # NULL /\ bestTime' <= bestTime)
        /\ (offered' # offered /\ offered' # <<>>)
           => LET candidate == offered'[Len(offered')] IN
                IF bestTime = NULL \/ candidate < bestTime
                THEN bestTime' = candidate /\ storage' = StringOf(candidate)
                ELSE bestTime' = bestTime /\ storage' = storage
        /\ (offered' = offered \/ offered' = <<>>)
           => (bestTime' = bestTime /\ storage' = storage)]_vars

C9_Witness ==
  /\ status = "won"
  /\ Cardinality(finishes) = 2
  /\ bestTime < elapsedMs

\* C10: a resolution callback that runs after a restart issued since it was
\* scheduled changes nothing.
C10_StaleCallbackInert ==
  [][(/\ lastEvent'.op = "timeout"
      /\ \E t \in timers : t.stale /\ t \notin timers')
       => UNCHANGED <<cards, activeCards, moves, matches, status, elapsedMs,
                      bestTime, intervalRef, startTimeRef, timeoutsRef,
                      storage>>]_vars

\* C11: a click with an index outside the deck changes nothing and throws
\* nothing, whatever the status and the selection.
C11_OutOfRangeTapInert ==
  [][(lastEvent'.op = "click" /\ lastEvent'.index \notin DOMAIN cards)
       => (UNCHANGED progVars /\ lastEvent'.outcome # "threw")]_vars

\* C12: a localStorage that throws never takes the game down: the component
\* stays mounted, and a round whose pairs are all found is won, with its
\* finish time frozen, offered, and no greater than the best time.
C12_PersistenceFailureHarmless ==
  /\ ~crashed
  /\ matches = TOTAL_PAIRS
       => /\ status = "won"
          /\ offered = <<elapsedMs>>
          /\ bestTime # NULL
          /\ bestTime <= elapsedMs

\* A stored text that is a duration: a non-empty run of decimal digits.
ValidDuration(text) ==
  /\ text # NoEntry
  /\ text # <<>>
  /\ \A i \in DOMAIN text : text[i] \in Range(Digits)

\* C13: after mount, a stored entry that is no valid duration (empty,
\* white space, not a number) leaves the best time absent.
C13_CorruptEntryIsAbsent ==
  (lastEvent.op = "mount" /\ ~ValidDuration(storage)) => bestTime = NULL

\* The decks that differ from cs at most in the symbols of face-down cards.
HiddenSymbolVariants(cs) ==
  {[i \in DOMAIN cs |-> [cs[i] EXCEPT !.symbol = alt[i]]] :
     alt \in {a \in [DOMAIN cs -> Range(SYMBOLS)] :
                \A i \in DOMAIN cs :
                  (cs[i].isFlipped \/ cs[i].isMatched)
                    => a[i] = cs[i].symbol}}

\* C14: what is rendered does not depend on the symbols of the cards that
\* are neither face-up nor matched.
C14_SnapshotHidesFaceDown ==
  \A other \in HiddenSymbolVariants(cards) : Render(other) = Render(cards)

\* C15: elapsedMs is 0 whenever the status is ready, never decreases while
\* the round is being played (the freezing step included), keeps its value
\* for as long as the status is won, and is reset to 0 by a restart.
C15_ElapsedMonotoneFrozen ==
  /\ [](status = "ready" => elapsedMs = 0)
  /\ [][/\ (status = "playing" /\ lastEvent'.op # "restart")
           => elapsedMs' >= elapsedMs
        /\ (status = "won" /\ lastEvent'.op # "restart")
           => (status' = "won" /\ elapsedMs' = elapsedMs)
        /\ lastEvent'.op = "restart" => elapsedMs' = 0]_vars

C15_Witness ==
  /\ status = "won"
  /\ elapsedMs = 1
  /\ now = 2
  /\ lastEvent.op = "click"

\* C16: the selected indices are in range and distinct, and the cards they
\* name are face-up and not matched.
C16_SelectionFaceUp ==
  /\ \A k \in DOMAIN activeCards :
       /\ activeCards[k] \in DOMAIN cards
       /\ cards[activeCards[k]].isFlipped
       /\ ~cards[activeCards[k]].isMatched
  /\ \A k, l \in DOMAIN activeCards :
       k # l => activeCards[k] # activeCards[l]

C16_Witness ==
  /\ Len(activeCards) = 1
  /\ matches = 1
  /\ lastEvent.outcome = "accepted"

\* C17: the interval runs exactly while the status is playing; ready means
\* every card face-down and no move made; won means every pair matched and
\* nothing selected; the first accepted click of a round starts the play.
C17_PhaseDeterminesTimerAndBoard ==
  /\ [](/\ intervalRef # NULL <=> status = "playing"
        /\ status = "ready" => (AllFaceDown /\ moves = 0)
        /\ status = "won"
             => /\ matches = TOTAL_PAIRS
                /\ \A i \in DOMAIN cards : cards[i].isMatched
                /\ activeCards = <<>>)
  /\ [][(status = "ready" /\ lastEvent'.outcome = "accepted")
          => (status' = "playing" /\ startTimeRef' = now)]_vars

C17_Witness ==
  /\ status = "won"
  /\ intervalRef = NULL
  /\ moves = MaxMoves
  /\ lastEvent.op = "timeout"

\* C18: at most one callback is outstanding, and one is exactly when two
\* cards are selected; it is the one for these two cards; while it waits no
\* click is accepted and the deck does not change under it.
C18_OneResolutionOutstanding ==
  /\ [](/\ Cardinality(timers) <= 1
        /\ timers # {} <=> Len(activeCards) = 2
        /\ \A t \in timers :
             /\ activeCards = <<t.first, t.second>>
             /\ t.kind = IF PendingMatch THEN "match" ELSE "mismatch")
  /\ [][/\ (timers # {} /\ lastEvent'.op = "click")
           => lastEvent'.outcome # "accepted"
        /\ (timers # {} /\ timers' = timers) => cards' = cards]_vars

C18_Witness ==
  /\ Cardinality(timers) = 1
  /\ lastEvent.op = "click"
  /\ lastEvent.outcome = "returned"
  /\ moves = 2

\* C19: a full selection is always emptied again, given that the host runs
\* the callbacks it holds.
C19_ResolvingEnds == (Len(activeCards) = 2) ~> (activeCards = <<>>)

C19_Witness ==
  /\ activeCards = <<>>
  /\ lastEvent.op = "timeout"
  /\ lastEvent.outcome = "mismatch"
  /\ moves = MaxMoves

\* C20: the cards that are face-up and not matched are exactly the selected
\* ones.
C20_FaceUpIsSelection ==
  {i \in DOMAIN cards : cards[i].isFlipped /\ ~cards[i].isMatched}
    = Range(activeCards)

C20_Witness ==
  /\ Len(activeCards) = 1
  /\ moves = 1
  /\ matches = 0
  /\ lastEvent.outcome = "accepted"

====
